---- MODULE Spec2Model ----
(***************************************************************************)
(* Model of the enterprise offer conditions                                *)
(* (ecommerce/enterprise/conditions.py) and of the assignment-email API    *)
(* views (ecommerce/extensions/api/v2/views/assignmentemail.py).  The      *)
(* assignment of coupon codes, whose view is not among the sources, is     *)
(* modelled after its tests (api/v2/tests/views/test_enterprise.py).       *)
(*                                                                         *)
(* Python values are modelled as strings; None is the string "None".  A    *)
(* call that ends in an uncaught exception has the exception's class name  *)
(* as its result ("KeyError", "TypeError", "AttributeError", ...).         *)
(***************************************************************************)
EXTENDS Integers, Sequences, FiniteSets, TLC

VARIABLES
    switches,        \* waffle switches: [offers, coupons]
    coupon,          \* the coupon's configuration: [usage, max_global_is_none, max_global_applications]
    num_orders,      \* Voucher.num_orders, per voucher code
    assignments,     \* the OfferAssignment table: a bag of rows [code, user_email, status]
    attributeTypes,  \* the BasketAttributeType table: the set of names
    accepted,        \* checkouts found satisfied whose order is not recorded yet: [code, user_email]
    pc,              \* "idle" or "done": whether the last call's result is on record
    call,            \* the last is_satisfied call: its arguments, result and remote calls
    request,         \* the last POST to the send-emails endpoint
    response,        \* its response
    outbox,          \* emails enqueued on the worker by that request
    updateStatus,    \* the last POST to the update-status endpoint and its response
    assignCall       \* the last POST to the coupon's assign endpoint and its response

vars == <<switches, coupon, num_orders, assignments, attributeTypes, accepted, pc, call,
          request, response, outbox, updateStatus, assignCall>>

condVars == <<switches, coupon, num_orders, assignments, attributeTypes, accepted, pc, call>>
emailVars == <<request, response, outbox, updateStatus, assignCall>>
sendVars == <<request, response, outbox>>

----------------------------------------------------------------------------
(* Bounds of the model *)

MaxLines == 1
MaxAssignments == 2
MaxOrders == 1
MaxRecords == 2
MaxUses == 2
MaxEmails == 2
MaxTokens == 2

----------------------------------------------------------------------------
(* Values *)

None == "None"

Emails == {"a@x", "b@x"}
Codes == {"K1", "K2"}

SITE == "Site"
VOUCHER == "Voucher"
OfferTypes == {SITE, VOUCHER}

SINGLE_USE == "Single use"
MULTI_USE == "Multi-use"
Usages == {SINGLE_USE, MULTI_USE}

OFFER_ASSIGNED == "OFFER_ASSIGNED"
OFFER_REDEEMED == "OFFER_REDEEMED"
OFFER_ASSIGNMENT_REVOKED == "OFFER_ASSIGNMENT_REVOKED"
Statuses == {OFFER_ASSIGNED, OFFER_REDEEMED, OFFER_ASSIGNMENT_REVOKED}

OFFER_MAX_USES_DEFAULT == 10000

ENTERPRISE_CATALOG_ATTRIBUTE_TYPE == "enterprise_catalog_uuid"

Classes == {"EnterpriseCustomerCondition", "AssignableEnterpriseCustomerCondition"}

----------------------------------------------------------------------------
(* UUIDs.  The UUID objects are "UUID(1)" and "UUID(2)"; "u1" and "u2" are *)
(* their canonical spellings, "U1" and "U2" other spellings (upper case)   *)
(* of the same UUIDs, and "junk" is a text that spells no UUID.            *)

\* uuid.UUID(text): the UUID a text spells, or ValueError
UUID(text) ==
    CASE text \in {"u1", "U1"} -> "UUID(1)"
      [] text \in {"u2", "U2"} -> "UUID(2)"
      [] OTHER -> "ValueError"

\* str(uuid): the canonical spelling of a UUID
str(uuid) == IF uuid = "UUID(1)" THEN "u1" ELSE "u2"

\* Python truthiness of an optional text
Truthy(text) == text # None /\ text # ""

----------------------------------------------------------------------------
(* The remote learner lookup.  fetch_enterprise_learner_data(...)          *)
(* ['results'][0] either raises, or yields the first learner record.  A    *)
(* record is modelled by whether it is a non-empty dict and by its         *)
(* 'enterprise_customer' entry: "absent" (no such key), "None" (null),     *)
(* "nouuid" (a dict without 'uuid') or the text of the uuid.               *)

\* what the lookup can raise: ConnectionError, Timeout and
\* SlumberHttpBaseException from the HTTP client, KeyError when the response
\* has no 'results', IndexError when 'results' is empty
LookupErrors ==
    {"ConnectionError", "KeyError", "SlumberHttpBaseException", "Timeout", "IndexError"}

\* an except clause that leaves Timeout out
CaughtErrorsWithoutTimeout == {"ConnectionError", "KeyError", "SlumberHttpBaseException"}

\* except (ConnectionError, KeyError, SlumberHttpBaseException, Timeout)
CaughtErrors == {"ConnectionError", "KeyError", "SlumberHttpBaseException", "Timeout"}

NoRecord == [nonempty |-> FALSE, ec |-> "absent"]

LearnerRecords ==
    {NoRecord} \cup
    {[nonempty |-> TRUE, ec |-> e] : e \in {"absent", "None", "nouuid", "u1", "U1", "u2"}}

FetchOutcomes ==
    {[kind |-> k, data |-> NoRecord] : k \in LookupErrors} \cup
    {[kind |-> "ok", data |-> d] : d \in LearnerRecords}

----------------------------------------------------------------------------
(* Arguments of is_satisfied *)

\* line.product: a seat of a course run, or a product that has no course
Products == {"seat", "donation"}

\* line.product.course
course(product) == IF product = "seat" THEN "course-run-1" ELSE None

RECURSIVE SeqsUpTo(_, _)
SeqsUpTo(S, n) ==
    IF n = 0 THEN {<<>>}
    ELSE LET shorter == SeqsUpTo(S, n - 1)
         IN  shorter \cup {Append(q, x) : q \in {t \in shorter : Len(t) = n - 1}, x \in S}

\* basket.strategy.request: "NoRequest" when the basket has none; otherwise
\* the value of request.GET.get('catalog')
RequestCatalogs == {"NoRequest", None, "", "u1", "junk"}

\* value_text of the basket's enterprise-catalog BasketAttribute; None when
\* the basket has no such attribute
AttributeCatalogs == {None, "U2"}

\* basket.owner: None for an anonymous basket, otherwise the user (named by
\* the email); basket.vouchers.first(): None or the voucher's code
Baskets ==
    [owner : {None} \cup Emails,
     lines : SeqsUpTo(Products, MaxLines),
     request_catalog : RequestCatalogs,
     attribute_catalog : AttributeCatalogs,
     voucher : {None} \cup Codes]

\* baskets of one seat, with no catalog given
SeatBaskets ==
    [owner : {None} \cup Emails,
     lines : {<<"seat">>},
     request_catalog : {"NoRequest"},
     attribute_catalog : {None},
     voucher : {None} \cup Codes]

\* the condition's configuration
Conditions ==
    [enterprise_customer_uuid : {"UUID(1)"},
     enterprise_customer_catalog_uuid : {None, "UUID(1)"}]

\* the answers of the remote services during one call
Remotes == [learner : FetchOutcomes, contains : BOOLEAN]

\* the result of a call and the remote and database calls it made
R(ret, trace, created) == [ret |-> ret, trace |-> trace, created |-> created]

----------------------------------------------------------------------------
(* EnterpriseCustomerCondition *)

\* a lookup that makes sure of the attribute type before it looks at the request
get_enterprise_catalog_uuid_from_basket_creating_first(basket) ==
    LET fromRequest == IF basket.request_catalog # "NoRequest"
                       THEN basket.request_catalog ELSE None
        text == IF ~Truthy(fromRequest) /\ basket.attribute_catalog # None
                THEN basket.attribute_catalog ELSE fromRequest
        parsed == IF Truthy(text) THEN UUID(text) ELSE None
    IN  [catalog |-> IF parsed = "ValueError" THEN None ELSE parsed,
         created |-> {ENTERPRISE_CATALOG_ATTRIBUTE_TYPE}]

\* a lookup that prefers the basket's attribute to the request's parameter
get_enterprise_catalog_uuid_from_basket_attribute_first(basket) ==
    LET fromRequest == IF basket.request_catalog # "NoRequest"
                       THEN basket.request_catalog ELSE None
        text == IF basket.attribute_catalog # None
                THEN basket.attribute_catalog ELSE fromRequest
        parsed == IF Truthy(text) THEN UUID(text) ELSE None
    IN  [catalog |-> IF parsed = "ValueError" THEN None ELSE parsed,
         created |-> IF ~Truthy(fromRequest) THEN {ENTERPRISE_CATALOG_ATTRIBUTE_TYPE} ELSE {}]

\* _get_enterprise_catalog_uuid_from_basket: [catalog, created], created
\* being the BasketAttributeType names that get_or_create was called with
get_enterprise_catalog_uuid_from_basket(basket) ==
    LET fromRequest == IF basket.request_catalog # "NoRequest"
                       THEN basket.request_catalog ELSE None
        useAttribute == ~Truthy(fromRequest)
        text == IF useAttribute /\ basket.attribute_catalog # None
                THEN basket.attribute_catalog ELSE fromRequest
        parsed == IF Truthy(text) THEN UUID(text) ELSE None
    IN  [catalog |-> IF parsed = "ValueError" THEN None ELSE parsed,
         created |-> IF useAttribute THEN {ENTERPRISE_CATALOG_ATTRIBUTE_TYPE} ELSE {}]

\* is_satisfied from the catalog lookup on (lines 105-126)
CatalogGuards(cond, basket, remote, trace) ==
    LET got == get_enterprise_catalog_uuid_from_basket(basket)
        catalog == got.catalog
        looked == Append(trace, "_get_enterprise_catalog_uuid_from_basket")
    IN  IF catalog # None /\ cond.enterprise_customer_catalog_uuid # catalog
        THEN R("False", looked, got.created)
        ELSE IF ~remote.contains
        THEN R("False", Append(looked, "catalog_contains_course_runs"), got.created)
        ELSE R("True", Append(looked, "catalog_contains_course_runs"), got.created)

\* is_satisfied from the loop over the basket's lines on (lines 93-126)
LineGuards(cond, basket, remote, trace) ==
    IF \E i \in 1..Len(basket.lines) : course(basket.lines[i]) = None
    THEN R("False", trace, {})
    ELSE CatalogGuards(cond, basket, remote, trace)

\* a comparison that is never made
EnterpriseGuardSkipped(cond, learner_data) == "skip"

\* the comparison of the learner's enterprise with the condition's
\* (lines 83-91): "skip", "mismatch", or the exception the subscripting raises
EnterpriseGuard(cond, learner_data) ==
    IF ~(learner_data.nonempty /\ learner_data.ec # "absent") THEN "skip"
    ELSE IF learner_data.ec = "None" THEN "TypeError"
    ELSE IF learner_data.ec = "nouuid" THEN "KeyError"
    ELSE IF str(cond.enterprise_customer_uuid) # learner_data.ec THEN "mismatch"
    ELSE "skip"

\* an evaluation that does not stop at the first failing guard: the lines and
\* the catalog are looked at whatever the lookup gave
LearnerGuardsEager(cond, offer_type, basket, remote) ==
    LET fetched == remote.learner
        trace == <<"fetch_enterprise_learner_data">>
        later == LineGuards(cond, basket, remote, trace)
        learner_data == IF fetched.kind = "ok" THEN fetched.data ELSE NoRecord
        guard == EnterpriseGuard(cond, learner_data)
    IN  IF fetched.kind \in CaughtErrors THEN R("False", later.trace, later.created)
        ELSE IF fetched.kind = "IndexError" /\ offer_type = SITE
        THEN R("False", later.trace, later.created)
        ELSE IF guard = "mismatch" THEN R("False", later.trace, later.created)
        ELSE IF guard # "skip" THEN R(guard, later.trace, later.created)
        ELSE later

\* an evaluation that turns an empty result list down for every offer type
LearnerGuardsRejectingEmpty(cond, offer_type, basket, remote) ==
    LET fetched == remote.learner
        trace == <<"fetch_enterprise_learner_data">>
    IN  IF fetched.kind \in CaughtErrors \/ fetched.kind = "IndexError"
        THEN R("False", trace, {})
        ELSE LET guard == EnterpriseGuard(cond, fetched.data)
             IN  IF guard = "mismatch" THEN R("False", trace, {})
                 ELSE IF guard # "skip" THEN R(guard, trace, {})
                 ELSE LineGuards(cond, basket, remote, trace)

\* is_satisfied from the remote learner lookup on (lines 65-126)
LearnerGuards(cond, offer_type, basket, remote) ==
    LET fetched == remote.learner
        trace == <<"fetch_enterprise_learner_data">>
    IN  IF fetched.kind \in CaughtErrors THEN R("False", trace, {})
        ELSE IF fetched.kind = "IndexError" /\ offer_type = SITE
        THEN R("False", trace, {})
        ELSE LET learner_data == IF fetched.kind = "IndexError"
                                 THEN NoRecord ELSE fetched.data
                 guard == EnterpriseGuard(cond, learner_data)
             IN  IF guard = "mismatch" THEN R("False", trace, {})
                 ELSE IF guard # "skip" THEN R(guard, trace, {})
                 ELSE LineGuards(cond, basket, remote, trace)

\* is_satisfied without the check of the coupon switch
SwitchGuardsSkipped(cond, offer_type, basket, remote, sw) ==
    LearnerGuards(cond, offer_type, basket, remote)

\* is_satisfied from the check of the coupon switch on (lines 60-126)
SwitchGuards(cond, offer_type, basket, remote, sw) ==
    IF offer_type = VOUCHER /\ ~sw.coupons THEN R("False", <<>>, {})
    ELSE LearnerGuards(cond, offer_type, basket, remote)

\* is_satisfied without the check of the basket's owner
is_satisfied_body_any_owner(cond, offer_type, basket, remote, sw) ==
    SwitchGuards(cond, offer_type, basket, remote, sw)

\* the body of EnterpriseCustomerCondition.is_satisfied (lines 56-126)
is_satisfied_body(cond, offer_type, basket, remote, sw) ==
    IF basket.owner = None THEN R("False", <<>>, {})
    ELSE SwitchGuards(cond, offer_type, basket, remote, sw)

\* @check_condition_applicability([ENTERPRISE_OFFERS_SWITCH]): the condition
\* is not applicable while the enterprise-offers switch is off
check_condition_applicability(sw, result) ==
    IF ~sw.offers THEN R("False", <<>>, {}) ELSE result

\* EnterpriseCustomerCondition.is_satisfied, as decorated
EnterpriseCustomerCondition_is_satisfied(cond, offer_type, basket, remote, sw) ==
    check_condition_applicability(sw, is_satisfied_body(cond, offer_type, basket, remote, sw))

----------------------------------------------------------------------------
(* The offer-assignment records *)

Rows == [code : Codes, user_email : Emails, status : Statuses]

RECURSIVE SumOver(_, _)
SumOver(f, S) ==
    IF S = {} THEN 0
    ELSE LET x == CHOOSE y \in S : TRUE IN f[x] + SumOver(f, S \ {x})

\* the number of rows of a table (a bag: row -> number of copies)
Count(table) == SumOver(table, Rows)

EmptyTable == [r \in Rows |-> 0]

\* the coupon's configuration: the usage of its vouchers and the offer's
\* max_global_applications (max_global_is_none: the field is None)
Coupons ==
    {[usage |-> u, max_global_is_none |-> TRUE, max_global_applications |-> 0] : u \in Usages}
    \cup [usage : Usages, max_global_is_none : {FALSE}, max_global_applications : 0..1]

\* the database as is_satisfied reads it
DB == [coupon |-> coupon, num_orders |-> num_orders, assignments |-> assignments]

----------------------------------------------------------------------------
(* AssignableEnterpriseCustomerCondition *)

\* offer.max_global_applications or OFFER_MAX_USES_DEFAULT
offer_max_uses(cpn) ==
    IF cpn.max_global_is_none \/ cpn.max_global_applications = 0
    THEN OFFER_MAX_USES_DEFAULT
    ELSE cpn.max_global_applications

\* redemeptions_available (lines 197-202)
redemeptions_available(db, code) ==
    IF db.coupon.usage = SINGLE_USE
    THEN db.num_orders[code] = 0
    ELSE db.num_orders[code] < offer_max_uses(db.coupon)

\* an existence check that forgets the filter on the voucher's code
any_offer_assignments_exist(db, code) ==
    \E r \in Rows : db.assignments[r] > 0

\* voucher_offer_assignments.exists() (line 187)
voucher_offer_assignments_exist(db, code) ==
    \E r \in Rows : db.assignments[r] > 0 /\ r.code = code

\* a slot that is open only while nobody else holds an open assignment of
\* the code
voucher_offer_assignments_available_exclusive(db, code, email) ==
    /\ \E r \in Rows :
           /\ db.assignments[r] > 0
           /\ r.code = code
           /\ r.user_email = email
           /\ r.status \notin {OFFER_REDEEMED, OFFER_ASSIGNMENT_REVOKED}
    /\ ~\E r \in Rows :
           /\ db.assignments[r] > 0
           /\ r.code = code
           /\ r.user_email # email
           /\ r.status \notin {OFFER_REDEEMED, OFFER_ASSIGNMENT_REVOKED}

\* voucher_offer_assignments_available.exists() (lines 192-194)
voucher_offer_assignments_available(db, code, email) ==
    \E r \in Rows :
        /\ db.assignments[r] > 0
        /\ r.code = code
        /\ r.user_email = email
        /\ r.status \notin {OFFER_REDEEMED, OFFER_ASSIGNMENT_REVOKED}

\* is_satisfied after the base condition was found satisfied (lines 184-208)
SlotGuards(basket, db, base) ==
    LET code == basket.voucher
    IN  IF code = None THEN R("AttributeError", base.trace, base.created)
        ELSE IF ~voucher_offer_assignments_exist(db, code)
        THEN R("True", base.trace, base.created)
        ELSE IF /\ voucher_offer_assignments_available(db, code, basket.owner)
                /\ redemeptions_available(db, code)
        THEN R("True", base.trace, base.created)
        ELSE R("False", base.trace, base.created)

\* AssignableEnterpriseCustomerCondition.is_satisfied
AssignableEnterpriseCustomerCondition_is_satisfied(cond, offer_type, basket, remote, sw, db) ==
    LET condition_satisfied ==
            EnterpriseCustomerCondition_is_satisfied(cond, offer_type, basket, remote, sw)
    IN  IF condition_satisfied.ret = "False"
        THEN R("False", condition_satisfied.trace, condition_satisfied.created)
        ELSE IF condition_satisfied.ret # "True" THEN condition_satisfied
        ELSE SlotGuards(basket, db, condition_satisfied)

\* condition.is_satisfied(offer, basket), dispatched on the condition's class
is_satisfied(cls, cond, offer_type, basket, remote, sw, db) ==
    IF cls = "AssignableEnterpriseCustomerCondition"
    THEN AssignableEnterpriseCustomerCondition_is_satisfied(cond, offer_type, basket, remote, sw, db)
    ELSE EnterpriseCustomerCondition_is_satisfied(cond, offer_type, basket, remote, sw)

----------------------------------------------------------------------------
(* AssignmentEmail: POST /assignmentemail/sendemails *)

required_attrs ==
    <<"user_email", "code", "enrollment_url", "code_usage_count", "code_expiration_date">>

\* A token set maps each required attribute to its value; "NoKey" says that
\* the token set has no such key.  "" and None are the empty values.
FullTokens(email, code) ==
    [k \in {required_attrs[i] : i \in 1..Len(required_attrs)} |->
        CASE k = "user_email" -> email
          [] k = "code" -> code
          [] k = "enrollment_url" -> "http://tempurl.url/enroll"
          [] k = "code_usage_count" -> "3"
          [] OTHER -> "2012-04-23T18:25:43.511Z"]

TokenSets ==
    {FullTokens("a@x", "K1"),
     FullTokens("b@x", "K2"),
     [FullTokens("a@x", "K1") EXCEPT !["code"] = "NoKey"],
     [FullTokens("b@x", "K2") EXCEPT !["enrollment_url"] = ""],
     [FullTokens("a@x", "K2") EXCEPT !["user_email"] = None, !["code_usage_count"] = "NoKey"],
     [FullTokens("b@x", "K1") EXCEPT !["code_expiration_date"] = "23 April 2012"]}

\* A template is the sequence of its pieces: "text" is literal text, "{" a
\* single brace, "0" the positional field {0}, any other piece the field of
\* that name.
Templates ==
    {<<>>,
     <<"text">>,
     <<"text", "user_email", "code", "code_expiration_date">>,
     <<"text", "code", "learner_name">>,
     <<"code", "0">>,
     <<"{", "code">>}

\* not value
Falsy(value) == value \in {"", None}

\* datetime.strptime(text, '%Y-%m-%dT%H:%M:%S.%fZ').replace(hour=0, ...): the
\* day at midnight, or ValueError when the text has another format
strptime_midnight(text) ==
    IF text = "2012-04-23T18:25:43.511Z" THEN "2012-04-23 00:00:00" ELSE "ValueError"

\* template.format(**values): the rendered pieces, or the first error met
\* when going through the template: [body, error, key]
RECURSIVE format(_, _, _)
format(template, values, done) ==
    IF template = <<>> THEN [body |-> done, error |-> None, key |-> None]
    ELSE LET piece == Head(template)
         IN  IF piece = "text" THEN format(Tail(template), values, Append(done, piece))
             ELSE IF piece = "{" THEN [body |-> <<>>, error |-> "ValueError", key |-> None]
             ELSE IF piece = "0" THEN [body |-> <<>>, error |-> "IndexError", key |-> None]
             ELSE IF piece \notin DOMAIN values
             THEN [body |-> <<>>, error |-> "KeyError", key |-> piece]
             ELSE format(Tail(template), values, Append(done, values[piece]))

\* what get_email_parameters returns; raised is the exception that leaves it
Parameters(learner_email, code, subject, email_body, missing_keys, missing_values, template_key_error, raised) ==
    [learner_email |-> learner_email, code |-> code, subject |-> subject,
     email_body |-> email_body, missing_keys |-> missing_keys,
     missing_values |-> missing_values, template_key_error |-> template_key_error,
     raised |-> raised]

\* get_email_parameters after the required attributes were found (lines 37-59)
render_email(template, template_tokens) ==
    LET learner_email == template_tokens["user_email"]
        code == template_tokens["code"]
        code_expiration_date == strptime_midnight(template_tokens["code_expiration_date"])
        values == [template_tokens EXCEPT !["code_expiration_date"] = code_expiration_date]
        subject == "New edX course assignment"
        formatted == format(template, values, <<>>)
    IN  IF code_expiration_date = "ValueError"
        THEN Parameters(None, None, None, <<>>, <<>>, <<>>, None, "ValueError")
        ELSE IF formatted.error = "KeyError"
        THEN Parameters(learner_email, code, subject, <<>>, <<>>, <<>>, formatted.key, None)
        ELSE IF formatted.error # None
        THEN Parameters(None, None, None, <<>>, <<>>, <<>>, None, formatted.error)
        ELSE Parameters(learner_email, code, subject, formatted.body, <<>>, <<>>, None, None)

\* AssignmentEmail.get_email_parameters
get_email_parameters(template, template_tokens) ==
    LET missing_keys == SelectSeq(required_attrs, LAMBDA attr : template_tokens[attr] = "NoKey")
        available_keys == SelectSeq(required_attrs, LAMBDA attr : template_tokens[attr] # "NoKey")
        missing_values == SelectSeq(available_keys, LAMBDA key : Falsy(template_tokens[key]))
    IN  IF missing_keys # <<>> \/ missing_values # <<>>
        THEN Parameters(None, None, None, <<>>, missing_keys, missing_values, None, None)
        ELSE render_email(template, template_tokens)

\* AssignmentEmail.get_response_status
get_response_status(learner_email, code, email_status, missing_keys, missing_values, template_key_error) ==
    [user_email |-> learner_email, code |-> code, status |-> email_status,
     missing_keys |-> missing_keys, missing_values |-> missing_values,
     template_key_error |-> template_key_error]

\* the loop of AssignmentEmail.post over the token sets from the i-th on
\* (lines 170-189): the response and the emails enqueued.  failing holds the
\* positions at which send_code_assignment_email.delay raises.
RECURSIVE post_loop(_, _, _, _, _, _)
post_loop(template, template_tokens_list, failing, i, email_status, sent) ==
    IF i > Len(template_tokens_list)
    THEN [status_code |-> "200", status |-> email_status, error |-> None, sent |-> sent]
    ELSE LET p == get_email_parameters(template, template_tokens_list[i])
             entry(st) == get_response_status(p.learner_email, p.code, st, p.missing_keys,
                                              p.missing_values, p.template_key_error)
         IN  IF p.raised # None
             THEN [status_code |-> "500", status |-> <<>>, error |-> p.raised, sent |-> sent]
             ELSE IF /\ p.missing_keys = <<>>
                     /\ p.missing_values = <<>>
                     /\ p.template_key_error = None
                     /\ i \notin failing
             THEN post_loop(template, template_tokens_list, failing, i + 1,
                            Append(email_status, entry("Dispatched")),
                            Append(sent, [to |-> p.learner_email, subject |-> p.subject,
                                          body |-> p.email_body, token_set |-> i]))
             ELSE post_loop(template, template_tokens_list, failing, i + 1,
                            Append(email_status, entry("Failed")), sent)

\* a handler that goes through the token sets without looking at the
\* parameters first
post_unchecked(req) ==
    post_loop(req.template, req.template_tokens, req.failing, 1, <<>>, <<>>)

\* AssignmentEmail.post
post(req) ==
    IF \/ ~req.template_given \/ req.template = <<>>
       \/ ~req.tokens_given \/ req.template_tokens = <<>>
    THEN [status_code |-> "400", status |-> <<>>,
          error |-> "Required parameters are missing", sent |-> <<>>]
    ELSE post_loop(req.template, req.template_tokens, req.failing, 1, <<>>, <<>>)

----------------------------------------------------------------------------
(* AssignmentEmailStatus: POST /assignmentemail/updatestatus *)

\* request.data: each of the three fields holds a value or is missing
StatusData ==
    [user_email : Emails \cup {"c@x", "NoKey"},
     code : Codes \cup {"NoKey"},
     status : {"success", "failure", "", "NoKey"}]

\* request.data.get(key)
data_get(data, key) == IF data[key] = "NoKey" THEN None ELSE data[key]

\* the update as the commented-out lines would make it: the assignment of
\* the code to the email becomes OFFER_ASSIGNED, and a missing one raises
update_email_status_enabled(table, email, code) ==
    LET found == {r \in Rows : table[r] > 0 /\ r.user_email = email /\ r.code = code}
    IN  IF found = {} THEN [table |-> table, raised |-> "DoesNotExist"]
        ELSE IF ~\E r \in found : found = {r} /\ table[r] = 1
        THEN [table |-> table, raised |-> "MultipleObjectsReturned"]
        ELSE LET r == CHOOSE x \in found : TRUE
             IN  [table |-> [[table EXCEPT ![r] = @ - 1]
                                EXCEPT ![[r EXCEPT !.status = OFFER_ASSIGNED]] = @ + 1],
                  raised |-> None]

\* update_email_status (lines 196-203): its body is a docstring and comments
update_email_status(table, email, code) == [table |-> table, raised |-> None]

NoStatusObject == [user_email |-> None, code |-> None, status |-> None, error |-> None]

\* AssignmentEmailStatus.post (lines 205-256): the response and the
\* OfferAssignment table it leaves; update_status is bound only in the
\* branch of status 'success'
AssignmentEmailStatus_post(data, table) ==
    LET user_email == data_get(data, "user_email")
        code == data_get(data, "code")
        email_status == data_get(data, "status")
        updated == update_email_status(table, user_email, code)
    IN  IF email_status = "success"
        THEN IF updated.raised = None
             THEN [status_code |-> "200", table |-> updated.table,
                   status |-> [user_email |-> user_email, code |-> code,
                               status |-> "updated", error |-> ""]]
             ELSE [status_code |-> "200", table |-> updated.table,
                   status |-> [user_email |-> user_email, code |-> code,
                               status |-> "failed", error |-> updated.raised]]
        ELSE [status_code |-> "UnboundLocalError", table |-> table,
              status |-> NoStatusObject]

----------------------------------------------------------------------------
(* State *)

NoCall ==
    [cls |-> "none", cond |-> None, offer_type |-> None, basket |-> None,
     remote |-> None, ret |-> None, trace |-> <<>>]

NoRequest ==
    [template_given |-> FALSE, template |-> <<>>, tokens_given |-> FALSE,
     template_tokens |-> <<>>, failing |-> {}]
NoResponse == [status_code |-> None, status |-> <<>>, error |-> None]

NoStatusData == [user_email |-> None, code |-> None, status |-> None]
NoUpdate == [data |-> NoStatusData, status_code |-> None, status |-> NoStatusObject]

NoAssign == [emails |-> <<>>, error |-> None, offer_assignments |-> <<>>]

EmailIdle ==
    /\ request = NoRequest
    /\ response = NoResponse
    /\ outbox = <<>>
    /\ updateStatus = NoUpdate
    /\ assignCall = NoAssign

\* a single-use coupon of two codes, K1 assigned to a@x and K2 to nobody;
\* no voucher used yet, the switches still off
Init ==
    /\ switches = [offers |-> FALSE, coupons |-> FALSE]
    /\ coupon \in {c \in Coupons : c.usage = SINGLE_USE /\ c.max_global_is_none}
    /\ num_orders = [c \in Codes |-> 0]
    /\ assignments = [EmptyTable EXCEPT ![[code |-> "K1", user_email |-> "a@x",
                                           status |-> OFFER_ASSIGNED]] = 1]
    /\ attributeTypes = {}
    /\ accepted = {}
    /\ pc = "idle"
    /\ call = NoCall
    /\ EmailIdle

----------------------------------------------------------------------------
(* Operations on the conditions *)

\* an administrator flips a waffle switch
SetSwitch(name, active) ==
    /\ pc = "idle"
    /\ switches[name] # active
    /\ switches' = [switches EXCEPT ![name] = active]
    /\ UNCHANGED <<coupon, num_orders, assignments, attributeTypes, accepted, pc, call>>
    /\ UNCHANGED emailVars

\* condition.is_satisfied(offer, basket) is called and returns (or raises)
Evaluate(cls, cond, offer_type, basket, remote) ==
    /\ pc = "idle"
    /\ LET r == is_satisfied(cls, cond, offer_type, basket, remote, switches, DB)
       IN  /\ call' = [cls |-> cls, cond |-> cond, offer_type |-> offer_type,
                       basket |-> basket, remote |-> remote,
                       ret |-> r.ret, trace |-> r.trace]
           /\ attributeTypes' = attributeTypes \cup r.created
    /\ pc' = "done"
    /\ UNCHANGED <<switches, coupon, num_orders, assignments, accepted>>
    /\ UNCHANGED emailVars

\* the caller takes the result
Return ==
    /\ pc = "done"
    /\ pc' = "idle"
    /\ call' = NoCall
    /\ UNCHANGED <<switches, coupon, num_orders, assignments, attributeTypes, accepted>>
    /\ UNCHANGED emailVars

EvaluateAny ==
    /\ pc = "idle"
    /\ \E cls \in Classes, cond \in Conditions, offer_type \in OfferTypes,
       basket \in Baskets, remote \in Remotes :
        Evaluate(cls, cond, offer_type, basket, remote)

SetAnySwitch ==
    /\ pc = "idle"
    /\ \E name \in {"offers", "coupons"}, active \in BOOLEAN : SetSwitch(name, active)

Next ==
    \/ SetAnySwitch
    \/ EvaluateAny
    \/ Return

Spec == Init /\ [][Next]_vars

----------------------------------------------------------------------------
(* Assignment and redemption of voucher codes *)

Row(code, email, status) == [code |-> code, user_email |-> email, status |-> status]

\* one more copy of a row, one copy less
Added(table, r) == [table EXCEPT ![r] = @ + 1]
Removed(table, r) == [table EXCEPT ![r] = @ - 1]

\* a code of the coupon is assigned to a learner: a new OfferAssignment
AssignCode(code, email) ==
    /\ pc = "idle"
    /\ Count(assignments) < MaxAssignments
    /\ assignments' = Added(assignments, Row(code, email, OFFER_ASSIGNED))
    /\ UNCHANGED <<switches, coupon, num_orders, attributeTypes, accepted, pc, call>>
    /\ UNCHANGED emailVars

\* an order placed with the voucher is recorded (voucher.record_usage); an
\* open assignment of the code to the user, if there is one, becomes redeemed
RedeemVoucher(code, email) ==
    /\ pc = "idle"
    /\ num_orders[code] < MaxOrders
    /\ num_orders' = [num_orders EXCEPT ![code] = @ + 1]
    /\ LET open == Row(code, email, OFFER_ASSIGNED)
       IN  assignments' =
               IF assignments[open] > 0
               THEN Added(Removed(assignments, open), Row(code, email, OFFER_REDEEMED))
               ELSE assignments
    /\ UNCHANGED <<switches, coupon, attributeTypes, accepted, pc, call>>
    /\ UNCHANGED emailVars

\* an open assignment is revoked
RevokeAssignment(code, email) ==
    /\ pc = "idle"
    /\ LET open == Row(code, email, OFFER_ASSIGNED)
       IN  /\ assignments[open] > 0
           /\ assignments' =
                  Added(Removed(assignments, open), Row(code, email, OFFER_ASSIGNMENT_REVOKED))
    /\ UNCHANGED <<switches, coupon, num_orders, attributeTypes, accepted, pc, call>>
    /\ UNCHANGED emailVars

\* learner records of the redemption model: the condition's enterprise,
\* another enterprise, an enterprise without uuid
RedeemRemotes ==
    {[learner |-> [kind |-> "ok", data |-> [nonempty |-> TRUE, ec |-> e]], contains |-> TRUE] :
        e \in {"u1", "u2", "nouuid"}}

RedeemConditions == {c \in Conditions : c.enterprise_customer_catalog_uuid = None}

EvaluateRedeem ==
    /\ pc = "idle"
    /\ \E basket \in SeatBaskets, remote \in RedeemRemotes, cond \in RedeemConditions :
           Evaluate("AssignableEnterpriseCustomerCondition", cond, VOUCHER, basket, remote)

AssignAny == \E code \in Codes, email \in Emails : AssignCode(code, email)
RedeemAny == \E code \in Codes, email \in Emails : RedeemVoucher(code, email)
RevokeAny == \E code \in Codes, email \in Emails : RevokeAssignment(code, email)

\* a coupon of any configuration, with both switches on and nothing assigned
InitRedeem ==
    /\ switches = [offers |-> TRUE, coupons |-> TRUE]
    /\ coupon \in Coupons
    /\ num_orders = [c \in Codes |-> 0]
    /\ assignments = EmptyTable
    /\ attributeTypes = {}
    /\ accepted = {}
    /\ pc = "idle"
    /\ call = NoCall
    /\ EmailIdle

NextRedeem ==
    \/ AssignAny
    \/ RedeemAny
    \/ RevokeAny
    \/ EvaluateRedeem
    \/ Return

SpecRedeem == InitRedeem /\ [][NextRedeem]_vars

----------------------------------------------------------------------------
(* Checkouts: the condition is checked, the order is recorded later *)

\* is_satisfied is called for a basket that is being checked out; a basket
\* found satisfied goes on to place its order
Check(cond, basket, remote) ==
    /\ pc = "idle"
    /\ LET r == is_satisfied("AssignableEnterpriseCustomerCondition", cond, VOUCHER,
                             basket, remote, switches, DB)
       IN  /\ call' = [cls |-> "AssignableEnterpriseCustomerCondition", cond |-> cond,
                       offer_type |-> VOUCHER, basket |-> basket, remote |-> remote,
                       ret |-> r.ret, trace |-> r.trace]
           /\ attributeTypes' = attributeTypes \cup r.created
           /\ accepted' = IF r.ret = "True"
                          THEN accepted \cup {[code |-> basket.voucher,
                                               user_email |-> basket.owner]}
                          ELSE accepted
    /\ pc' = "done"
    /\ UNCHANGED <<switches, coupon, num_orders, assignments>>
    /\ UNCHANGED emailVars

\* the order of an accepted checkout is placed: the use of the voucher is
\* recorded and the open assignment of the code to the user becomes redeemed
Record(code, email) ==
    /\ pc = "idle"
    /\ [code |-> code, user_email |-> email] \in accepted
    /\ num_orders[code] < MaxRecords
    /\ num_orders' = [num_orders EXCEPT ![code] = @ + 1]
    /\ LET open == Row(code, email, OFFER_ASSIGNED)
       IN  assignments' =
               IF assignments[open] > 0
               THEN Added(Removed(assignments, open), Row(code, email, OFFER_REDEEMED))
               ELSE assignments
    /\ accepted' = accepted \ {[code |-> code, user_email |-> email]}
    /\ UNCHANGED <<switches, coupon, attributeTypes, pc, call>>
    /\ UNCHANGED emailVars

CheckAny ==
    /\ pc = "idle"
    /\ \E basket \in SeatBaskets, remote \in RedeemRemotes, cond \in RedeemConditions :
           Check(cond, basket, remote)

RecordAny == \E code \in Codes, email \in Emails : Record(code, email)

\* a single-use coupon with both switches on and nothing assigned
InitCheckout ==
    /\ InitRedeem
    /\ coupon.usage = SINGLE_USE
    /\ coupon.max_global_is_none

NextCheckout ==
    \/ AssignAny
    \/ CheckAny
    \/ RecordAny
    \/ Return

SpecCheckout == InitCheckout /\ [][NextCheckout]_vars

----------------------------------------------------------------------------
(* Assignment of coupon codes: POST /enterprise/coupons/{id}/assign/ *)

MULTI_USE_PER_CUSTOMER == "Multi-use-per-Customer"

\* the coupons of the assignment tests: a usage and max_uses, which is unset
\* or positive; max_uses is the offer's max_global_applications
AssignCoupons ==
    {[usage |-> u, max_global_is_none |-> TRUE, max_global_applications |-> 0] : u \in Usages}
    \cup [usage : Usages \cup {MULTI_USE_PER_CUSTOMER}, max_global_is_none : {FALSE},
          max_global_applications : 1..MaxUses]

NOT_ENOUGH_CODES == "Not enough available codes for assignment!"

\* the vouchers of the coupon in the order they are assigned in
CodeOrder == <<"K1", "K2">>

\* the number of open assignments of a code
open_assignments(table, code) ==
    SumOver(table, {r \in Rows : r.code = code /\ r.status = OFFER_ASSIGNED})

\* the redemption slots of one code
code_slots(cpn) == IF cpn.usage = SINGLE_USE THEN 1 ELSE offer_max_uses(cpn)

\* every email takes one slot
one_slot_per_email(cpn) == 1

\* the slots one email takes: all of a multi-use-per-customer code, else one
slots_per_email(cpn) ==
    IF cpn.usage = MULTI_USE_PER_CUSTOMER THEN offer_max_uses(cpn) ELSE 1

\* the slots of a code that are neither used nor assigned
free_slots(cpn, orders, table, code) ==
    LET n == code_slots(cpn) - orders[code] - open_assignments(table, code)
    IN  IF n < 0 THEN 0 ELSE n

\* the number of further emails a code can be assigned to
emails_servable(cpn, orders, table, code) ==
    free_slots(cpn, orders, table, code) \div slots_per_email(cpn)

\* the first code that can serve one more email, or None
first_servable(cpn, orders, table) ==
    IF \E i \in 1..Len(CodeOrder) : emails_servable(cpn, orders, table, CodeOrder[i]) > 0
    THEN CodeOrder[CHOOSE i \in 1..Len(CodeOrder) :
             /\ emails_servable(cpn, orders, table, CodeOrder[i]) > 0
             /\ \A j \in 1..(i - 1) : emails_servable(cpn, orders, table, CodeOrder[j]) = 0]
    ELSE None

\* the rows of one email: slots_per_email assignments of the code
RECURSIVE add_rows(_, _, _, _)
add_rows(table, code, email, n) ==
    IF n = 0 THEN table
    ELSE add_rows(Added(table, Row(code, email, OFFER_ASSIGNED)), code, email, n - 1)

\* the emails from the i-th on are given codes, one after the other
RECURSIVE assign_loop(_, _, _, _, _, _)
assign_loop(cpn, orders, table, emails, i, made) ==
    IF i > Len(emails)
    THEN [error |-> None, table |-> table, offer_assignments |-> made]
    ELSE LET code == first_servable(cpn, orders, table)
         IN  IF code = None
             THEN [error |-> NOT_ENOUGH_CODES, table |-> table, offer_assignments |-> <<>>]
             ELSE assign_loop(cpn, orders,
                              add_rows(table, code, emails[i], slots_per_email(cpn)),
                              emails, i + 1,
                              Append(made, [code |-> code, user_email |-> emails[i]]))

\* the assign endpoint: all the emails get a code, or none does and the
\* request fails
assign_codes(cpn, orders, table, emails) ==
    LET r == assign_loop(cpn, orders, table, emails, 1, <<>>)
    IN  IF r.error # None THEN [r EXCEPT !.table = table] ELSE r

\* POST /enterprise/coupons/{id}/assign/ with a list of emails is handled
AssignCodes(emails) ==
    /\ pc = "idle"
    /\ assignCall = NoAssign
    /\ LET r == assign_codes(coupon, num_orders, assignments, emails)
       IN  /\ r.error # None \/ Count(r.table) <= MaxAssignments
           /\ assignCall' = [emails |-> emails, error |-> r.error,
                             offer_assignments |-> r.offer_assignments]
           /\ assignments' = r.table
    /\ UNCHANGED <<switches, coupon, num_orders, attributeTypes, accepted, pc, call>>
    /\ UNCHANGED <<sendVars, updateStatus>>

\* the client has its response
FinishAssign ==
    /\ assignCall # NoAssign
    /\ assignCall' = NoAssign
    /\ UNCHANGED condVars
    /\ UNCHANGED <<sendVars, updateStatus>>

AssignCodesAny ==
    /\ assignCall = NoAssign
    /\ \E emails \in SeqsUpTo(Emails, MaxEmails) \ {<<>>} : AssignCodes(emails)

\* vouchers are used and assignments revoked between the requests
UseBetweenAssigns == assignCall = NoAssign /\ RedeemAny
RevokeBetweenAssigns == assignCall = NoAssign /\ RevokeAny

\* a coupon of the assignment tests with nothing assigned or used
InitAssign ==
    /\ switches = [offers |-> TRUE, coupons |-> TRUE]
    /\ coupon \in AssignCoupons
    /\ num_orders = [c \in Codes |-> 0]
    /\ assignments = EmptyTable
    /\ attributeTypes = {}
    /\ accepted = {}
    /\ pc = "idle"
    /\ call = NoCall
    /\ EmailIdle

NextAssign ==
    \/ AssignCodesAny
    \/ FinishAssign
    \/ UseBetweenAssigns
    \/ RevokeBetweenAssigns

SpecAssign == InitAssign /\ [][NextAssign]_vars

----------------------------------------------------------------------------
(* Operations on the send-emails endpoint *)

Requests ==
    {[template_given |-> tg, template |-> t, tokens_given |-> kg,
      template_tokens |-> l, failing |-> f] :
        tg \in BOOLEAN, t \in Templates, kg \in BOOLEAN,
        l \in SeqsUpTo(TokenSets, MaxTokens), f \in SUBSET (1..MaxTokens)}

\* a request that has a field carries its value; one that lacks it carries
\* none; the worker can only fail at the positions of the request
WellFormed(req) ==
    /\ ~req.template_given => req.template = <<>>
    /\ ~req.tokens_given => req.template_tokens = <<>>
    /\ req.failing \subseteq 1..Len(req.template_tokens)

\* POST /assignmentemail/sendemails is handled
Post(req) ==
    /\ response = NoResponse
    /\ LET r == post(req)
       IN  /\ response' = [status_code |-> r.status_code, status |-> r.status,
                           error |-> r.error]
           /\ outbox' = outbox \o r.sent
    /\ request' = req
    /\ UNCHANGED condVars
    /\ UNCHANGED <<updateStatus, assignCall>>

\* the client has its response and the worker has sent the emails
Finish ==
    /\ response # NoResponse
    /\ request' = NoRequest
    /\ response' = NoResponse
    /\ outbox' = <<>>
    /\ UNCHANGED condVars
    /\ UNCHANGED <<updateStatus, assignCall>>

PostAny ==
    /\ response = NoResponse
    /\ \E req \in {q \in Requests : WellFormed(q)} : Post(req)

NextEmail ==
    \/ PostAny
    \/ Finish

SpecEmail == Init /\ [][NextEmail]_vars

----------------------------------------------------------------------------
(* Operations on the update-status endpoint *)

\* POST /assignmentemail/updatestatus is handled
PostStatus(data) ==
    /\ pc = "idle"
    /\ updateStatus = NoUpdate
    /\ LET r == AssignmentEmailStatus_post(data, assignments)
       IN  /\ updateStatus' = [data |-> data, status_code |-> r.status_code,
                               status |-> r.status]
           /\ assignments' = r.table
    /\ UNCHANGED <<switches, coupon, num_orders, attributeTypes, accepted, pc, call>>
    /\ UNCHANGED sendVars
    /\ UNCHANGED assignCall

\* the client has its response
FinishStatus ==
    /\ updateStatus # NoUpdate
    /\ updateStatus' = NoUpdate
    /\ UNCHANGED condVars
    /\ UNCHANGED sendVars
    /\ UNCHANGED assignCall

PostAnyStatus ==
    /\ updateStatus = NoUpdate
    /\ \E data \in StatusData : PostStatus(data)

\* assignments are made and revoked between the requests
AssignBetween == updateStatus = NoUpdate /\ AssignAny
RevokeBetween == updateStatus = NoUpdate /\ RevokeAny

NextStatus ==
    \/ PostAnyStatus
    \/ FinishStatus
    \/ AssignBetween
    \/ RevokeBetween

SpecStatus == InitRedeem /\ [][NextStatus]_vars

----------------------------------------------------------------------------
(* Properties of the conditions *)

\* the result the base condition gives for the arguments of the last call
BaseOfCall ==
    EnterpriseCustomerCondition_is_satisfied(
        call.cond, call.offer_type, call.basket, call.remote, switches).ret

\* every guard but the one in question lets the last call through: both
\* switches are on, the learner belongs to the condition's enterprise, the
\* basket holds one seat of the catalog and names no catalog
OtherwiseSatisfied ==
    /\ switches.offers
    /\ call.remote.learner.kind = "ok"
    /\ call.remote.learner.data = [nonempty |-> TRUE, ec |-> "u1"]
    /\ call.remote.contains
    /\ call.basket.lines = <<"seat">>
    /\ call.basket.request_catalog = "NoRequest"
    /\ call.basket.attribute_catalog = None

\* C1: for a basket without owner, is_satisfied of either condition class
\* returns False, whatever the offer, switches, learner data, catalog and
\* assignments are.
C1_NoOwnerNotSatisfied ==
    (pc = "done" /\ call.basket.owner = None) => call.ret = "False"

C1_Witness ==
    /\ pc = "done"
    /\ call.basket.owner = None
    /\ call.cls = "AssignableEnterpriseCustomerCondition"
    /\ call.basket.voucher = "K2"
    /\ switches.coupons
    /\ OtherwiseSatisfied

\* C2: for a voucher offer evaluated while the enterprise-offers-for-coupons
\* switch is off, is_satisfied returns False whatever the other inputs are.
C2_CouponSwitchOffNotSatisfied ==
    (pc = "done" /\ call.offer_type = VOUCHER /\ ~switches.coupons) => call.ret = "False"

C2_Witness ==
    /\ pc = "done"
    /\ call.offer_type = VOUCHER
    /\ ~switches.coupons
    /\ call.basket.owner = "a@x"
    /\ call.basket.voucher = "K1"
    /\ OtherwiseSatisfied

\* C3: when the learner lookup raises ConnectionError or Timeout (any offer
\* type), or yields an empty result list for a site offer, is_satisfied
\* returns False.
C3_LookupFailureNotSatisfied ==
    (/\ pc = "done"
     /\ \/ call.remote.learner.kind \in {"ConnectionError", "Timeout"}
        \/ call.remote.learner.kind = "IndexError" /\ call.offer_type = SITE)
    => call.ret = "False"

\* the lookup was made and timed out, with every other guard passing
C3_Witness ==
    /\ pc = "done"
    /\ call.remote.learner.kind = "Timeout"
    /\ call.trace = <<"fetch_enterprise_learner_data">>
    /\ call.offer_type = VOUCHER
    /\ call.basket.owner = "a@x"
    /\ call.basket.lines = <<"seat">>
    /\ call.remote.contains

\* C4: when the learner record of the lookup carries an enterprise uuid that
\* is another UUID than the condition's enterprise_customer_uuid,
\* is_satisfied returns False.
C4_EnterpriseMismatchNotSatisfied ==
    (/\ pc = "done"
     /\ call.remote.learner.kind = "ok"
     /\ call.remote.learner.data.ec \in {"u1", "U1", "u2"}
     /\ UUID(call.remote.learner.data.ec) # call.cond.enterprise_customer_uuid)
    => call.ret = "False"

\* the comparison was made (owner, switches and lookup passed) and every
\* later guard passes
C4_Witness ==
    /\ pc = "done"
    /\ call.remote.learner.kind = "ok"
    /\ call.remote.learner.data.ec = "u2"
    /\ call.trace = <<"fetch_enterprise_learner_data">>
    /\ call.basket.lines = <<"seat">>
    /\ call.remote.contains
    /\ call.basket.request_catalog = "NoRequest"
    /\ call.basket.attribute_catalog = None

\* the slot accounting of the last call's voucher and owner
AssignmentsExistForCall ==
    \E email \in Emails, status \in Statuses :
        assignments[Row(call.basket.voucher, email, status)] > 0
SlotOpenForCall ==
    /\ call.basket.owner \in Emails
    /\ assignments[Row(call.basket.voucher, call.basket.owner, OFFER_ASSIGNED)] > 0
CapacityLeftForCall ==
    IF coupon.usage = SINGLE_USE
    THEN num_orders[call.basket.voucher] = 0
    ELSE num_orders[call.basket.voucher] <
             (IF coupon.max_global_is_none \/ coupon.max_global_applications = 0
              THEN OFFER_MAX_USES_DEFAULT ELSE coupon.max_global_applications)

\* C5: for AssignableEnterpriseCustomerCondition, when an OfferAssignment
\* exists for the voucher's code, is_satisfied returns True only if the base
\* condition holds, the owner's email has an assignment of the code that is
\* neither redeemed nor revoked, and the voucher has usage capacity left; if
\* one of the three fails it returns False.
C5_AssignedVoucherNeedsSlotAndCapacity ==
    (/\ pc = "done"
     /\ call.cls = "AssignableEnterpriseCustomerCondition"
     /\ call.basket.voucher # None
     /\ AssignmentsExistForCall)
    => LET allThree == BaseOfCall = "True" /\ SlotOpenForCall /\ CapacityLeftForCall
       IN  /\ call.ret = "True" => allThree
           /\ ~allThree => call.ret = "False"

\* C6: for AssignableEnterpriseCustomerCondition, when no OfferAssignment
\* exists for the voucher's code, the result of is_satisfied is the result of
\* EnterpriseCustomerCondition.is_satisfied.
C6_UnassignedVoucherFollowsBase ==
    (/\ pc = "done"
     /\ call.cls = "AssignableEnterpriseCustomerCondition"
     /\ call.basket.voucher # None
     /\ ~AssignmentsExistForCall)
    => call.ret = BaseOfCall

\* a voucher without assignments is accepted for a qualifying owner while
\* the coupon's other code is assigned to somebody else
C6_Witness ==
    /\ pc = "done"
    /\ call.cls = "AssignableEnterpriseCustomerCondition"
    /\ call.basket.voucher = "K2"
    /\ call.basket.owner = "b@x"
    /\ ~AssignmentsExistForCall
    /\ assignments[Row("K1", "a@x", OFFER_ASSIGNED)] = 1
    /\ call.ret = "True"

\* the learner lookup failed: it raised one of the client's errors, the
\* response had no 'results', or the first result has no usable
\* enterprise_customer
LookupFailed(fetched) ==
    \/ fetched.kind \in {"ConnectionError", "Timeout", "SlumberHttpBaseException", "KeyError"}
    \/ fetched.kind = "ok" /\ fetched.data.ec \in {"absent", "None", "nouuid"}

\* C10: when the learner lookup fails, a malformed response included,
\* is_satisfied returns False and raises nothing, for site and voucher
\* offers alike.
C10_FailedLookupNotSatisfied ==
    (pc = "done" /\ LookupFailed(call.remote.learner)) => call.ret = "False"

\* the remote and database calls of is_satisfied, in the order of the code
GuardOrder ==
    <<"fetch_enterprise_learner_data", "_get_enterprise_catalog_uuid_from_basket",
      "catalog_contains_course_runs">>

IsPrefix(s, t) == Len(s) <= Len(t) /\ \A i \in 1..Len(s) : s[i] = t[i]

\* the last call was rejected before the learner lookup
RejectedBeforeLookup ==
    \/ call.basket.owner = None
    \/ ~switches.offers
    \/ call.offer_type = VOUCHER /\ ~switches.coupons

\* the learner lookup of the last call raised an error of the client, or
\* gave no result for a site offer
LookupRaised ==
    \/ call.remote.learner.kind \in
           {"ConnectionError", "Timeout", "SlumberHttpBaseException", "KeyError"}
    \/ call.remote.learner.kind = "IndexError" /\ call.offer_type = SITE

\* the learner of the last call belongs to another enterprise
LearnerOfOtherEnterprise ==
    /\ call.remote.learner.kind = "ok"
    /\ call.remote.learner.data.ec \in {"u1", "U1", "u2"}
    /\ UUID(call.remote.learner.data.ec) # call.cond.enterprise_customer_uuid

\* C11: the guards of is_satisfied run in the order owner, switches, learner
\* lookup, enterprise match, catalog, and the first failing one decides: the
\* calls made are a prefix of that order; no learner lookup is made for a
\* basket without owner, with the offers switch off or for a voucher offer
\* with the coupon switch off; after a failed lookup or an enterprise
\* mismatch the result is False and no catalog lookup is made.
C11_FirstFailingGuardDecides ==
    pc = "done" =>
        /\ IsPrefix(call.trace, GuardOrder)
        /\ RejectedBeforeLookup => (call.ret = "False" /\ call.trace = <<>>)
        /\ (~RejectedBeforeLookup /\ (LookupRaised \/ LearnerOfOtherEnterprise))
               => (call.ret = "False" /\ call.trace = <<"fetch_enterprise_learner_data">>)

\* a learner of another enterprise, with a basket whose catalog would have
\* been rejected as well: the lookup is the only call made
C11_Witness ==
    /\ pc = "done"
    /\ ~RejectedBeforeLookup
    /\ LearnerOfOtherEnterprise
    /\ call.basket.request_catalog = "u1"
    /\ call.cond.enterprise_customer_catalog_uuid = None
    /\ call.basket.lines = <<"seat">>
    /\ call.trace = <<"fetch_enterprise_learner_data">>
    /\ call.ret = "False"

\* a step that evaluates is_satisfied
Evaluated == pc = "idle" /\ pc' = "done"

\* the last call looked for the basket's catalog without one in its request
LookedForAttribute ==
    /\ \E i \in 1..Len(call.trace) : call.trace[i] = "_get_enterprise_catalog_uuid_from_basket"
    /\ call.basket.request_catalog \in {"NoRequest", None, ""}

\* C14: evaluating is_satisfied, of either class, only reads: the coupon,
\* the vouchers' num_orders, the offer assignments and the basket attribute
\* types are after the call what they were before it.
C14_IsSatisfiedOnlyReads ==
    [][Evaluated => UNCHANGED <<coupon, num_orders, assignments, attributeTypes, switches>>]_vars

\* C14, amended: evaluating is_satisfied leaves the coupon, the vouchers'
\* num_orders and the offer assignments as they were; of the basket attribute
\* types it creates at most the one named ENTERPRISE_CATALOG_ATTRIBUTE_TYPE,
\* and only in a call that reaches the catalog lookup with a basket whose
\* request names no catalog.
C14_IsSatisfiedCreatesAtMostTheAttributeType ==
    [][Evaluated =>
          /\ UNCHANGED <<coupon, num_orders, assignments, switches>>
          /\ attributeTypes \subseteq attributeTypes'
          /\ attributeTypes' \subseteq attributeTypes \cup {ENTERPRISE_CATALOG_ATTRIBUTE_TYPE}
          /\ attributeTypes' # attributeTypes => LookedForAttribute']_vars

\* the attribute type is on record after a call that looked for the
\* basket's attribute, and the assignment of the coupon is still there
C14_Witness ==
    /\ pc = "done"
    /\ LookedForAttribute
    /\ attributeTypes = {ENTERPRISE_CATALOG_ATTRIBUTE_TYPE}
    /\ assignments[Row("K1", "a@x", OFFER_ASSIGNED)] = 1

\* C15: the check of the redemption slot reads and decides without
\* reserving anything: for a single-use voucher that no order has used yet,
\* is_satisfied accepts every owner who holds an open assignment of the code
\* and passes the base condition, whichever other checkouts of the same
\* voucher have been accepted and not yet recorded.
C15_CheckReservesNothing ==
    (/\ pc = "done"
     /\ call.cls = "AssignableEnterpriseCustomerCondition"
     /\ call.basket.voucher # None
     /\ coupon.usage = SINGLE_USE
     /\ num_orders[call.basket.voucher] = 0
     /\ SlotOpenForCall
     /\ BaseOfCall = "True")
    => /\ call.ret = "True"
       /\ [code |-> call.basket.voucher, user_email |-> call.basket.owner] \in accepted

\* two checkouts of the single-use voucher K1 were accepted before either
\* order was recorded, and both orders have been recorded since
C15_Witness ==
    /\ coupon.usage = SINGLE_USE
    /\ num_orders["K1"] = 2
    /\ assignments[Row("K1", "a@x", OFFER_REDEEMED)] = 1
    /\ assignments[Row("K1", "b@x", OFFER_REDEEMED)] = 1

\* the valid catalog UUID that a basket carries: the UUID spelled by the
\* 'catalog' parameter of its request if the basket has a request with a
\* non-empty parameter, otherwise by its enterprise-catalog attribute; None
\* if there is no such text or it spells no UUID
SuppliedCatalog(basket) ==
    LET text == IF basket.request_catalog \notin {"NoRequest", None, ""}
                THEN basket.request_catalog ELSE basket.attribute_catalog
    IN  IF text \in {"u1", "U1"} THEN "UUID(1)"
        ELSE IF text \in {"u2", "U2"} THEN "UUID(2)"
        ELSE None

\* no guard of EnterpriseCustomerCondition.is_satisfied rejects the last
\* call.  The lookup fails when it raises an error of the client or gives no
\* result for a site offer; the learner's enterprise differs when the record
\* names an enterprise of another UUID.
NoGuardRejects ==
    /\ call.basket.owner # None
    /\ switches.offers
    /\ call.offer_type # VOUCHER \/ switches.coupons
    /\ ~LookupRaised
    /\ ~LearnerOfOtherEnterprise
    /\ \A i \in 1..Len(call.basket.lines) : call.basket.lines[i] = "seat"
    /\ SuppliedCatalog(call.basket) \in {None, call.cond.enterprise_customer_catalog_uuid}
    /\ call.remote.contains

\* the learner record of the last call spells its enterprise's uuid in the
\* canonical way, if it names one
CanonicalLearner ==
    call.remote.learner.kind = "ok" => call.remote.learner.data.ec # "U1"

\* C17: EnterpriseCustomerCondition.is_satisfied returns True exactly when
\* no guard rejects (owner, offers switch, coupon switch for voucher offers,
\* learner lookup, enterprise match, courses of the lines, catalog match,
\* catalog contents), and False in every other case.
C17_TrueExactlyWhenNoGuardRejects ==
    (pc = "done" /\ call.cls = "EnterpriseCustomerCondition" /\ CanonicalLearner)
    => /\ call.ret = "True" <=> NoGuardRejects
       /\ ~NoGuardRejects => call.ret = "False"

\* C17 for learner records whose enterprise_customer, if present, has a uuid
C17_HoldsForRecordsWithUuid ==
    (/\ pc = "done" /\ call.cls = "EnterpriseCustomerCondition" /\ CanonicalLearner
     /\ call.remote.learner.data.ec \notin {"None", "nouuid"})
    => /\ call.ret = "True" <=> NoGuardRejects
       /\ ~NoGuardRejects => call.ret = "False"

\* C18: with assignments of the voucher's code on record, the capacity that
\* AssignableEnterpriseCustomerCondition.is_satisfied asks for is
\* num_orders = 0 for a SINGLE_USE voucher and num_orders < L otherwise, L
\* being max_global_applications, or OFFER_MAX_USES_DEFAULT when that is
\* unset or 0: an owner with an open slot who passes the base condition is
\* accepted exactly when that capacity is left, and once num_orders has
\* reached the limit is_satisfied returns False for every user.
C18_CapacityLimit ==
    (/\ pc = "done"
     /\ call.cls = "AssignableEnterpriseCustomerCondition"
     /\ call.basket.voucher # None
     /\ AssignmentsExistForCall)
    => /\ (BaseOfCall = "True" /\ SlotOpenForCall)
              => (call.ret = "True" <=> CapacityLeftForCall)
       /\ ~CapacityLeftForCall => call.ret = "False"

\* C18 for the calls whose base condition returns True or False
C18_HoldsWhenBaseReturns ==
    (/\ pc = "done"
     /\ call.cls = "AssignableEnterpriseCustomerCondition"
     /\ call.basket.voucher # None
     /\ AssignmentsExistForCall
     /\ BaseOfCall \in {"True", "False"})
    => /\ (BaseOfCall = "True" /\ SlotOpenForCall)
              => (call.ret = "True" <=> CapacityLeftForCall)
       /\ ~CapacityLeftForCall => call.ret = "False"

\* the limit of a multi-use voucher is reached and its assigned owner, who
\* passes the base condition, is turned away
C18_LimitReached ==
    /\ pc = "done"
    /\ coupon.usage = MULTI_USE
    /\ ~coupon.max_global_is_none /\ coupon.max_global_applications = 1
    /\ call.basket.voucher \in Codes
    /\ num_orders[call.basket.voucher] = 1
    /\ SlotOpenForCall
    /\ BaseOfCall = "True"
    /\ call.ret = "False"

\* the basket of the last call carries a valid catalog UUID that is not the
\* catalog of the condition
CatalogOfOtherCondition ==
    /\ SuppliedCatalog(call.basket) # None
    /\ SuppliedCatalog(call.basket) # call.cond.enterprise_customer_catalog_uuid

\* C19: when the basket carries a valid enterprise catalog UUID that is not
\* the enterprise_customer_catalog_uuid of the condition, is_satisfied
\* returns False; a condition without catalog uuid is turned down for every
\* basket that names a catalog.
C19_OtherCatalogNotSatisfied ==
    (pc = "done" /\ CatalogOfOtherCondition) => call.ret = "False"

\* C19 for the calls that get as far as the catalog lookup
C19_HoldsOnceCatalogIsLookedUp ==
    (/\ pc = "done"
     /\ CatalogOfOtherCondition
     /\ \E i \in 1..Len(call.trace) :
            call.trace[i] = "_get_enterprise_catalog_uuid_from_basket")
    => (call.ret = "False" /\ call.trace[Len(call.trace)] # "catalog_contains_course_runs")

\* a condition without catalog uuid is turned down at the catalog guard for
\* a basket whose attribute names a catalog
C19_TurnedDownAtCatalog ==
    /\ pc = "done"
    /\ call.cond.enterprise_customer_catalog_uuid = None
    /\ call.basket.request_catalog = ""
    /\ call.basket.attribute_catalog = "U2"
    /\ call.trace = <<"fetch_enterprise_learner_data", "_get_enterprise_catalog_uuid_from_basket">>
    /\ call.ret = "False"

\* the last call got as far as the catalog lookup
CatalogLookedUp ==
    \E i \in 1..Len(call.trace) : call.trace[i] = "_get_enterprise_catalog_uuid_from_basket"

\* C20: _get_enterprise_catalog_uuid_from_basket returns the UUID spelled by
\* the 'catalog' parameter of the basket's request when there is a request
\* with a non-empty parameter, otherwise by the basket's enterprise-catalog
\* attribute; it returns None when the chosen text spells no UUID or there
\* is none, and then is_satisfied skips the catalog-match guard and goes on
\* to ask whether the catalog contains the course runs.
C20_CatalogFromRequestElseAttribute ==
    (pc = "done" /\ CatalogLookedUp)
    => LET got == get_enterprise_catalog_uuid_from_basket(call.basket).catalog
       IN  /\ got = SuppliedCatalog(call.basket)
           /\ got = None =>
                  /\ call.trace[Len(call.trace)] = "catalog_contains_course_runs"
                  /\ BaseOfCall = (IF call.remote.contains THEN "True" ELSE "False")

\* the request's parameter spells no UUID: the attribute, which names
\* another catalog than the condition's, is not consulted and the guard is
\* skipped
C20_Witness ==
    /\ pc = "done"
    /\ CatalogLookedUp
    /\ call.basket.request_catalog = "junk"
    /\ call.basket.attribute_catalog = "U2"
    /\ call.cond.enterprise_customer_catalog_uuid = "UUID(1)"
    /\ call.cls = "EnterpriseCustomerCondition"
    /\ call.ret = "True"

\* the guards after the enterprise comparison let the last call through:
\* every line has a course, the basket's catalog, if it names one, is the
\* condition's, and the catalog contains the course runs
LaterGuardsPass ==
    /\ \A i \in 1..Len(call.basket.lines) : call.basket.lines[i] = "seat"
    /\ SuppliedCatalog(call.basket) \in {None, call.cond.enterprise_customer_catalog_uuid}
    /\ call.remote.contains

\* C21: for a voucher offer with the coupon switch on, an empty result list
\* of the learner lookup rejects nothing: the enterprise comparison is
\* skipped and is_satisfied returns what the guards after it decide, True
\* when they pass and False when one of them rejects.
C21_EmptyResultPassesForVoucherOffer ==
    (/\ pc = "done"
     /\ call.cls = "EnterpriseCustomerCondition"
     /\ call.offer_type = VOUCHER
     /\ switches.offers /\ switches.coupons
     /\ call.basket.owner # None
     /\ call.remote.learner.kind = "IndexError")
    => call.ret = (IF LaterGuardsPass THEN "True" ELSE "False")

\* an owner without learner record satisfies the condition of a voucher
\* offer: the lookup, the catalog lookup and the catalog contents were asked
C21_Witness ==
    /\ pc = "done"
    /\ call.cls = "EnterpriseCustomerCondition"
    /\ call.offer_type = VOUCHER
    /\ call.remote.learner.kind = "IndexError"
    /\ call.basket.lines = <<"seat">>
    /\ Len(call.trace) = 3
    /\ call.ret = "True"

\* every assignment of the last call's voucher is redeemed or revoked
OnlyClosedAssignmentsForCall ==
    /\ AssignmentsExistForCall
    /\ \A email \in Emails :
           assignments[Row(call.basket.voucher, email, OFFER_ASSIGNED)] = 0

\* C22: redeemed and revoked assignments count as existing assignments:
\* when every OfferAssignment of the voucher's code is redeemed or revoked,
\* AssignableEnterpriseCustomerCondition.is_satisfied returns False for
\* every basket owner and does not fall back to the rule for vouchers
\* without assignments.
C22_ClosedAssignmentsStillCount ==
    (/\ pc = "done"
     /\ call.cls = "AssignableEnterpriseCustomerCondition"
     /\ call.basket.voucher # None
     /\ OnlyClosedAssignmentsForCall)
    => call.ret = "False"

\* C22 for the calls whose base condition returns True or False
C22_HoldsWhenBaseReturns ==
    (/\ pc = "done"
     /\ call.cls = "AssignableEnterpriseCustomerCondition"
     /\ call.basket.voucher # None
     /\ OnlyClosedAssignmentsForCall
     /\ BaseOfCall \in {"True", "False"})
    => call.ret = "False"

\* an owner who passes the base condition is turned away from a voucher
\* that nobody has used and whose only assignment is revoked
C22_TurnedAwayAfterRevocation ==
    /\ pc = "done"
    /\ call.cls = "AssignableEnterpriseCustomerCondition"
    /\ call.basket.voucher = "K1"
    /\ num_orders["K1"] = 0
    /\ assignments[Row("K1", "a@x", OFFER_ASSIGNMENT_REVOKED)] = 1
    /\ OnlyClosedAssignmentsForCall
    /\ BaseOfCall = "True"
    /\ call.ret = "False"

\* a single-use voucher with an assignment on record has been used
UsedSingleUse(code) ==
    /\ coupon.usage = SINGLE_USE
    /\ num_orders[code] >= 1
    /\ \E email \in Emails, status \in Statuses : assignments[Row(code, email, status)] > 0

\* once a single-use voucher with an assignment has a recorded order it
\* keeps both, whatever is assigned, redeemed or revoked afterwards
C23_UsedStaysUsed ==
    [][\A code \in Codes : UsedSingleUse(code) => UsedSingleUse(code)']_vars

\* C23: over every sequence of assignments, redemptions and revocations,
\* once a single-use voucher that has an assignment has a recorded order
\* (num_orders >= 1), AssignableEnterpriseCustomerCondition.is_satisfied
\* returns False for every user, in every later state.
C23_UsedSingleUseVoucherStaysClosed ==
    (/\ pc = "done"
     /\ call.cls = "AssignableEnterpriseCustomerCondition"
     /\ call.basket.voucher # None
     /\ UsedSingleUse(call.basket.voucher))
    => call.ret = "False"

\* C23 for the calls whose base condition returns True or False
C23_HoldsWhenBaseReturns ==
    (/\ pc = "done"
     /\ call.cls = "AssignableEnterpriseCustomerCondition"
     /\ call.basket.voucher # None
     /\ UsedSingleUse(call.basket.voucher)
     /\ BaseOfCall \in {"True", "False"})
    => call.ret = "False"

\* after the use of K1 by a@x a second learner was assigned the code, and
\* is turned away although the slot is open and the base condition holds
C23_LaterAssigneeTurnedAway ==
    /\ pc = "done"
    /\ call.basket.voucher = "K1"
    /\ call.basket.owner = "b@x"
    /\ UsedSingleUse("K1")
    /\ assignments[Row("K1", "a@x", OFFER_REDEEMED)] = 1
    /\ assignments[Row("K1", "b@x", OFFER_ASSIGNED)] = 1
    /\ BaseOfCall = "True"
    /\ call.ret = "False"

\* C24: AssignableEnterpriseCustomerCondition.is_satisfied returns True or
\* False for every offer and basket for which the base condition holds, a
\* basket without voucher included; reading the voucher never fails.
C24_BooleanWheneverBaseHolds ==
    (/\ pc = "done"
     /\ call.cls = "AssignableEnterpriseCustomerCondition"
     /\ BaseOfCall = "True")
    => call.ret \in {"True", "False"}

\* C24 for the baskets that carry a voucher
C24_HoldsForBasketsWithVoucher ==
    (/\ pc = "done"
     /\ call.cls = "AssignableEnterpriseCustomerCondition"
     /\ BaseOfCall = "True"
     /\ call.basket.voucher # None)
    => call.ret \in {"True", "False"}

----------------------------------------------------------------------------
(* Properties of the send-emails endpoint *)

\* the last request passed the check of its parameters
Accepted ==
    /\ response # NoResponse
    /\ request.template_given /\ request.template # <<>>
    /\ request.tokens_given /\ request.template_tokens # <<>>

Elements(q) == {q[i] : i \in 1..Len(q)}
RequiredAttrs == Elements(required_attrs)

AbsentKeys(tokens) == {k \in RequiredAttrs : tokens[k] = "NoKey"}
EmptyKeys(tokens) == {k \in RequiredAttrs : tokens[k] \in {"", None}}
Incomplete(tokens) == AbsentKeys(tokens) # {} \/ EmptyKeys(tokens) # {}

\* an email was enqueued for the i-th token set
Enqueued(i) == \E j \in 1..Len(outbox) : outbox[j].token_set = i

\* the i-th entry of the response reports on the i-th token set
Reports(i) ==
    LET entry == response.status[i]
        tokens == request.template_tokens[i]
    IN  /\ Elements(entry.missing_keys) = AbsentKeys(tokens)
        /\ Elements(entry.missing_values) = EmptyKeys(tokens)
        /\ entry.status = "Dispatched" =>
              entry.user_email = tokens["user_email"] /\ entry.code = tokens["code"]

\* rendering the template raises for every complete token set: it has a
\* piece that is neither text nor one of the known fields
Unrenderable(template) == Elements(template) \ ({"text"} \cup RequiredAttrs) # {}

\* the expiration date of every complete token set has the expected format
DatesParse ==
    \A i \in 1..Len(request.template_tokens) :
        LET tokens == request.template_tokens[i]
        IN  ~Incomplete(tokens) =>
                strptime_midnight(tokens["code_expiration_date"]) # "ValueError"

\* C7: for a POST with a template and a non-empty list of token sets, the
\* response's status list has one entry per token set, the i-th entry
\* reporting on the i-th token set, whatever the token sets hold.
C7_OneEntryPerTokenSet ==
    (Accepted /\ ~Unrenderable(request.template)) =>
        /\ response.status_code = "200"
        /\ Len(response.status) = Len(request.template_tokens)
        /\ \A i \in 1..Len(request.template_tokens) : Reports(i)

\* C8: a token set that lacks a required key, or has an empty value for one,
\* gets the status "Failed" with the missing keys and values listed, and no
\* email is enqueued for it.
C8_IncompleteTokenSetFails ==
    Accepted =>
        \A i \in 1..Len(request.template_tokens) :
            Incomplete(request.template_tokens[i]) =>
                /\ ~Enqueued(i)
                /\ i <= Len(response.status)
                /\ response.status[i].status = "Failed"
                /\ Elements(response.status[i].missing_keys) =
                       AbsentKeys(request.template_tokens[i])
                /\ Elements(response.status[i].missing_values) =
                       EmptyKeys(request.template_tokens[i])

\* C9: an error raised while rendering the template for a token set is
\* caught for that token set: its entry is "Failed" with template_key_error
\* set, no email is enqueued for it, the other token sets are still
\* processed and the request does not fail.
C9_TemplateErrorCaughtPerTokenSet ==
    (Accepted /\ Unrenderable(request.template) /\ DatesParse) =>
        /\ response.status_code = "200"
        /\ Len(response.status) = Len(request.template_tokens)
        /\ \A i \in 1..Len(request.template_tokens) :
              ~Incomplete(request.template_tokens[i]) =>
                  /\ response.status[i].status = "Failed"
                  /\ response.status[i].template_key_error # None
                  /\ ~Enqueued(i)

\* the i-th token set of the last request is valid: complete, with an
\* expiration date of the expected format, and the template renders for it
ValidTokenSet(i) ==
    LET tokens == request.template_tokens[i]
    IN  /\ ~Incomplete(tokens)
        /\ strptime_midnight(tokens["code_expiration_date"]) # "ValueError"
        /\ ~Unrenderable(request.template)

\* what the claim C25 says of the last request
EnqueueErrorIsPerTokenSet ==
    /\ \A i \in request.failing :
           ValidTokenSet(i) =>
               /\ response.status_code = "200"
               /\ Len(response.status) = Len(request.template_tokens)
               /\ response.status[i].status = "Failed"
               /\ ~Enqueued(i)
               /\ \A j \in (i + 1)..Len(request.template_tokens) :
                      (ValidTokenSet(j) /\ j \notin request.failing) =>
                          (response.status[j].status = "Dispatched" /\ Enqueued(j))
    /\ \A i \in 1..Len(response.status) :
           response.status[i].status = "Dispatched" =>
               (Enqueued(i) /\ i \notin request.failing)

\* C25: when enqueuing the email task raises for a valid token set, its
\* entry is "Failed", the token sets after it are still processed, and
\* dispatched when valid, and the response is HTTP 200; an entry is
\* "Dispatched" only if its email task was enqueued without error.
C25_EnqueueErrorCaughtPerTokenSet ==
    Accepted => EnqueueErrorIsPerTokenSet

\* C25 for the requests whose expiration dates all have the expected format
C25_HoldsWhenDatesParse ==
    (Accepted /\ DatesParse) => EnqueueErrorIsPerTokenSet

\* the task of the first token set raised and the second was dispatched
C25_SecondDispatchedAfterFailure ==
    /\ Accepted
    /\ request.failing = {1}
    /\ Len(request.template_tokens) = 2
    /\ ValidTokenSet(1) /\ ValidTokenSet(2)
    /\ response.status_code = "200"
    /\ response.status[1].status = "Failed"
    /\ response.status[2].status = "Dispatched"
    /\ Len(outbox) = 1

\* C26: a POST to the send-emails endpoint without template or with an empty
\* one, or without template_tokens or with an empty list, is answered with
\* HTTP 400 and the error 'Required parameters are missing', and no email
\* task is enqueued.
C26_MissingParametersRejected ==
    (/\ response # NoResponse
     /\ \/ ~request.template_given \/ request.template = <<>>
        \/ ~request.tokens_given \/ request.template_tokens = <<>>)
    => /\ response.status_code = "400"
       /\ response.error = "Required parameters are missing"
       /\ response.status = <<>>
       /\ outbox = <<>>

\* a request with a template and no template_tokens was turned down
C26_Witness ==
    /\ response.status_code = "400"
    /\ request.template_given
    /\ request.template = <<"text", "user_email", "code", "code_expiration_date">>
    /\ ~request.tokens_given
    /\ outbox = <<>>

----------------------------------------------------------------------------
(* Properties of the update-status endpoint *)

\* a step that handles a POST to the update-status endpoint
StatusHandled == updateStatus = NoUpdate /\ updateStatus' # NoUpdate

C13_UpdateStatusAlwaysAnswered ==
    updateStatus # NoUpdate =>
        /\ updateStatus.status_code = "200"
        /\ updateStatus.status.user_email = data_get(updateStatus.data, "user_email")
        /\ updateStatus.status.code = data_get(updateStatus.data, "code")
        /\ updateStatus.status.status \in {"updated", "failed"}
        /\ updateStatus.status.error # None

----------------------------------------------------------------------------
(* Properties of the assign endpoint *)

\* a step that handles a POST to the assign endpoint
AssignHandled == assignCall = NoAssign /\ assignCall' # NoAssign

\* the free redemption slots of the coupon's vouchers: one per single-use
\* code and max_uses per other code, less the uses and the open assignments
SlotsOfCode(code) ==
    LET limit == IF coupon.usage = SINGLE_USE THEN 1
                 ELSE IF coupon.max_global_is_none THEN OFFER_MAX_USES_DEFAULT
                 ELSE coupon.max_global_applications
        taken == num_orders[code] + assignments[Row(code, "a@x", OFFER_ASSIGNED)]
                     + assignments[Row(code, "b@x", OFFER_ASSIGNED)]
    IN  IF limit > taken THEN limit - taken ELSE 0
SlotsOffered == SlotsOfCode("K1") + SlotsOfCode("K2")

\* the slots the emails of the request take
SlotsNeeded(emails) ==
    Len(emails) * (IF coupon.usage = MULTI_USE_PER_CUSTOMER
                   THEN coupon.max_global_applications ELSE 1)

\* C16: a request to assign codes to a list of emails fails with 'Not enough
\* available codes for assignment!', and assigns nothing, whenever the
\* coupon's vouchers offer fewer free slots than the emails need: one slot
\* per single-use code, max_uses per multi-use code, max_uses slots taken by
\* each email of a multi-use-per-customer coupon.
C16_NotEnoughCodesFails ==
    [][(AssignHandled /\ SlotsOffered < SlotsNeeded(assignCall'.emails)) =>
          /\ assignCall'.error = "Not enough available codes for assignment!"
          /\ assignCall'.offer_assignments = <<>>
          /\ assignments' = assignments]_vars

\* a multi-use-per-customer coupon whose first code is assigned: two more
\* emails need twice max_uses slots and the second code offers max_uses
C16_Witness ==
    /\ coupon.usage = MULTI_USE_PER_CUSTOMER
    /\ coupon.max_global_applications = 2
    /\ assignments[Row("K1", "a@x", OFFER_ASSIGNED)] = 2
    /\ assignCall.emails = <<"b@x", "a@x">>
    /\ assignCall.error = "Not enough available codes for assignment!"

====
